---- MODULE Spec2Model ----
(***************************************************************************)
(* Receipt classification-and-filing pipeline (server actions):            *)
(*   callGemini            - Vertex AI call with region failover and       *)
(*                           429 retry                                     *)
(*   findFolder, listChildFolders, resolveCategoryFolder                   *)
(*                         - Drive directory lookup                        *)
(*   processReceipt / processPdf                                           *)
(*                         - per page: extract, route, resolve, upload     *)
(* and the part of onDrop (page.tsx) that calls processReceipt and shows   *)
(* its result, with and without withTimeout.                               *)
(*                                                                         *)
(* Strings of the source that are not ASCII are written romanised:         *)
(*   "25nen-made-no-keihi"  the legacy directory ('25 nen made no keihi')  *)
(*   "kaigihi" "kotsuhi" "settaikosaihi" "shomohinhi" "tsushinhi"          *)
(*   "sonota"               the six categories of the prompt               *)
(*   "3-ryoshusho" "7-sonota"  the generic bucket directories              *)
(*   "fumei"                the unknown-vendor placeholder                 *)
(***************************************************************************)
EXTENDS Integers, Sequences, FiniteSets, TLC

VARIABLES
  \* ---- process environment (read once at module load) ----
  envLocation,      \* process.env.GOOGLE_LOCATION
  envFallback,      \* process.env.GOOGLE_LOCATION_FALLBACK
  \* ---- callGemini ----
  gpc,              \* position inside callGemini
  accessToken,      \* const accessToken
  tokenCalls,       \* number of jwtClient.getAccessToken() calls
  locations,        \* const locations
  attempt,          \* let attempt
  locIdx,           \* position of the for..of iterator in locations (1-based)
  last429Text,      \* let last429Text
  requests,         \* every fetch issued so far, with the response it got
  waits,            \* every setTimeout delay awaited so far
  outcome,          \* how the call ended (returned value or thrown error)
  calls,            \* number of invocations of callGemini so far
  \* ---- resolveCategoryFolder taken alone ----
  rcCategory,       \* argument category
  rcFolders,        \* what listChildFolders(parentId) returns
  rcResult,         \* the id returned or the error thrown
  \* ---- the remote store ----
  rootFolders,      \* listing of the folders directly under ROOT_FOLDER_ID
  childFolders,     \* listing of the folders under each of those
  storeChanges,     \* changes made to the store by others so far
  driveLog,         \* every drive.files.* call issued so far
  geminiLog,        \* the file and page of every callGemini invocation
  \* ---- processReceipt / processPdf ----
  file,             \* formData.get("file")
  ppc,              \* position inside processReceipt / processPdf
  totalPages,       \* pages the PDF iterator will yield
  pageNum,          \* let pageNum
  results,          \* const results
  errors,           \* const errors
  data,             \* const data (the parsed model answer)
  dateStr,          \* const dateStr
  categoryFolder,   \* const categoryFolder
  newFileName,      \* const newFileName
  parentFolderId,   \* let parentFolderId
  targetFolderId,   \* const targetFolderId
  result,           \* the object processReceipt returns
  \* ---- onDrop (the page that calls processReceipt) ----
  logs,             \* const [logs, setLogs], the lines about this file
  receiptResults,   \* const [receiptResults, setReceiptResults]
  timedOut,         \* the timer of withTimeout has fired
  acceptedFiles,    \* the files dropped, argument of onDrop
  fileIdx,          \* position of the for..of iterator in acceptedFiles
  isProcessing,     \* const [isProcessing, setIsProcessing]
  upc,              \* position inside onDrop
  \* ---- fetchPastData (the button of the same page) ----
  isFetchingPast    \* const [isFetchingPast, setIsFetchingPast]

gvars == <<envLocation, envFallback, gpc, accessToken, tokenCalls, locations,
           attempt, locIdx, last429Text, requests, waits, outcome, calls>>

rvars == <<rcCategory, rcFolders, rcResult>>

dvars == <<rootFolders, childFolders, storeChanges, driveLog, geminiLog>>

pvars == <<file, ppc, totalPages, pageNum, results, errors, data, dateStr,
           categoryFolder, newFileName, parentFolderId, targetFolderId,
           result>>

uivars == <<logs, receiptResults, timedOut, acceptedFiles, fileIdx,
            isProcessing, upc>>

hvars == <<isFetchingPast>>

vars == <<gvars, rvars, dvars, pvars, uivars, hvars>>

notGemini  == <<rvars, dvars, pvars, uivars, hvars>>
notResolve == <<gvars, dvars, pvars, uivars, hvars>>
notFiling  == <<gvars, rvars, hvars>>

(***************************************************************************)
(* JavaScript values                                                       *)
(***************************************************************************)
\* Every JavaScript value of the model is a string: undefined and null are
\* the two markers below, a number is its JSON literal ("1200").
Undefined == "<undefined>"
Null      == "<null>"

\* Boolean(v) for the string-or-undefined values used here
Truthy(v) == v # Undefined /\ v # Null /\ v # ""

\* a || b
OrElse(a, b) == IF Truthy(a) THEN a ELSE b

\* a ?? b
Coalesce(a, b) == IF a = Undefined \/ a = Null THEN b ELSE a

\* arr.indexOf(v), 1-based; 0 when absent
IndexOf(arr, v) ==
  IF \E i \in 1..Len(arr) : arr[i] = v
  THEN CHOOSE i \in 1..Len(arr) : arr[i] = v /\ \A j \in 1..(i-1) : arr[j] # v
  ELSE 0

\* arr.filter(keep) for a predicate given as the set of kept positions
RECURSIVE FilterIdx(_, _, _)
FilterIdx(arr, keep, i) ==
  IF i > Len(arr) THEN <<>>
  ELSE (IF i \in keep THEN <<arr[i]>> ELSE <<>>) \o FilterIdx(arr, keep, i + 1)

(***************************************************************************)
(* callGemini: the location list                                           *)
(***************************************************************************)
DefaultLocation  == "asia-northeast1"
LastLocation     == "us-central1"

\* const GOOGLE_LOCATION = process.env.GOOGLE_LOCATION || 'asia-northeast1'
GOOGLE_LOCATION(env) == OrElse(env, DefaultLocation)

\* .filter((v): v is string => Boolean(v))
FilterTruthy(arr) ==
  FilterIdx(arr, {i \in 1..Len(arr) : Truthy(arr[i])}, 1)

\* variant: keeps the last occurrence of a value instead of the first
\* (arr.lastIndexOf(v) === i)
FilterLastOccurrence(arr) ==
  FilterIdx(arr, {i \in 1..Len(arr) :
                    \A j \in (i + 1)..Len(arr) : arr[j] # arr[i]}, 1)

\* .filter((v, i, arr) => arr.indexOf(v) === i)
FilterFirstOccurrence(arr) ==
  FilterIdx(arr, {i \in 1..Len(arr) : IndexOf(arr, arr[i]) = i}, 1)

BuildLocations(envLoc, envFb) ==
  FilterFirstOccurrence(
     FilterTruthy(<<GOOGLE_LOCATION(envLoc), envFb, LastLocation>>))

(***************************************************************************)
(* callGemini: responses of the endpoint                                   *)
(***************************************************************************)
MaxCalls == 2            \* invocations of callGemini explored

EnvValues == {Undefined, "", "asia-northeast1", "us-central1", "europe-west4"}
Tokens    == {"tok1", "tok2"}

\* the texts a model response may carry in candidates[0].content.parts[0].text
TextFull   == "{date:2024-03-05,amount:1200,vendor:Example Taxi,category:kotsuhi}"
TextBare   == "{}"
TextBroken == "Sure! Here is the JSON"
Texts      == {Undefined, "", TextBroken, TextBare, TextFull}

\* JSON.parse(text): the parsed object, or a SyntaxError
IsJSON(text) == text \in {TextFull, TextBare}
JSONparse(text) ==
  IF text = TextFull
  THEN [date |-> "2024-03-05", amount |-> "1200", vendor |-> "Example Taxi",
        category |-> "kotsuhi"]
  ELSE [date |-> Undefined, amount |-> Undefined, vendor |-> Undefined,
        category |-> Undefined]

\* a response: status line, raw body (res.text()), whether the body is JSON
\* (res.json()), and the text part of the first candidate
Responses ==
     [status : {429}, body : {"quota-a", "quota-b", ""}, json : {FALSE},
      text : {Undefined}]
  \cup [status : {403, 500}, body : {"denied"}, json : {FALSE},
      text : {Undefined}]
  \cup [status : {200}, body : {"html"}, json : {FALSE}, text : {Undefined}]
  \cup [status : {200, 201}, body : {"json"}, json : {TRUE}, text : Texts]

\* variant: only status 200 counts as success (res.status === 200)
okOnly200(res) == res.status = 200

\* res.ok
ok(res) == res.status >= 200 /\ res.status <= 299

Pending      == [kind |-> "pending", name |-> "", message |-> ""]
Throw(n, m)  == [kind |-> "throw", name |-> n, message |-> m]
Return(v)    == [kind |-> "return", value |-> v]

maxAttempts == 2

\* variant: the delay grows from zero (800 * attempt)
waitMsFromZero(att) == 800 * att

\* const waitMs = 800 * (attempt + 1)
waitMs(att) == 800 * (att + 1)

(***************************************************************************)
(* callGemini: the retry loop.  One step per await: the token, each fetch  *)
(* with the reading of its response, and the backoff timer.                *)
(***************************************************************************)
\* variant: every attempt that was rate limited everywhere is retried
EndOfAttemptAlwaysWait(att, l429, w) ==
  /\ waits' = Append(w, waitMs(att))
  /\ gpc' = "backoff"
  /\ outcome' = Pending

\* variant: the fallback text is chosen with || instead of ??
EndOfAttemptOrElse(att, l429, w) ==
  IF att < maxAttempts - 1
  THEN /\ waits' = Append(w, waitMs(att))
       /\ gpc' = "backoff"
       /\ outcome' = Pending
  ELSE /\ waits' = w
       /\ gpc' = "done"
       /\ outcome' = Throw("Error", "Vertex AI error (429): "
                                     \o OrElse(l429, "Resource exhausted"))

\* after the inner for..of loop of attempt att ended without a return or a
\* throw (lines 241-249); l429 is last429Text and w the waits made so far
EndOfAttempt(att, l429, w) ==
  IF att < maxAttempts - 1
  THEN /\ waits' = Append(w, waitMs(att))
       /\ gpc' = "backoff"
       /\ outcome' = Pending
  ELSE /\ waits' = w
       /\ gpc' = "done"
       /\ outcome' = Throw("Error", "Vertex AI error (429): "
                                     \o Coalesce(l429, "Resource exhausted"))

\* top of the attempt loop for attempt att: the loop condition, the reset of
\* last429Text and the start of the location loop (lines 210-213, 252)
StartAttempt(att, locs, w) ==
  /\ attempt' = att
  /\ IF att < maxAttempts
     THEN /\ last429Text' = Null
          /\ locIdx' = 1
          /\ IF Len(locs) = 0
             THEN EndOfAttempt(att, Null, w)
             ELSE gpc' = "fetch" /\ outcome' = Pending /\ waits' = w
     ELSE /\ gpc' = "done"
          /\ outcome' = Throw("Error", "retry limit reached")
          /\ waits' = w
          /\ UNCHANGED <<last429Text, locIdx>>

\* callGemini(prompt, imageBase64, mimeType): lines 190-210
CallGemini ==
  /\ gpc \in {"idle", "done"}
  /\ calls < MaxCalls
  /\ calls' = calls + 1
  /\ tokenCalls' = tokenCalls + 1
  /\ \E t \in Tokens : accessToken' = t
  /\ locations' = BuildLocations(envLocation, envFallback)
  /\ requests' = <<>>
  /\ StartAttempt(0, BuildLocations(envLocation, envFallback), <<>>)
  /\ UNCHANGED <<envLocation, envFallback>>
  /\ UNCHANGED notGemini

\* variant: server errors are retried like a 429
IsRateLimitedOrServerError(res) == res.status = 429 \/ res.status >= 500

\* if (res.status === 429)   (line 225)
IsRateLimited(res) == res.status = 429

\* variant: a 429 leaves the location loop (break instead of continue)
HasNextLocationBreak(i, locs) == FALSE

\* whether the for..of iterator has another location after position i
HasNextLocation(i, locs) == i < Len(locs)

\* variant: the text is parsed without the emptiness test
ResponseOutcomeNoEmptyTest(res) ==
  IF ~ok(res)
  THEN Throw("Error", "Vertex AI error (" \o ToString(res.status) \o "): "
                      \o res.body)
  ELSE IF ~res.json
  THEN Throw("SyntaxError", "Unexpected token")
  ELSE IF ~IsJSON(res.text)
  THEN Throw("SyntaxError", "Unexpected token")
  ELSE Return(JSONparse(res.text))

\* what a response that is not a 429 makes the call do (lines 230-238)
ResponseOutcome(res) ==
  IF ~ok(res)
  THEN Throw("Error", "Vertex AI error (" \o ToString(res.status) \o "): "
                      \o res.body)
  ELSE IF ~res.json
  THEN Throw("SyntaxError", "Unexpected token")
  ELSE IF ~Truthy(res.text)
  THEN Throw("Error", "AI kara no outou ga kara desu")
  ELSE IF ~IsJSON(res.text)
  THEN Throw("SyntaxError", "Unexpected token")
  ELSE Return(JSONparse(res.text))

\* one iteration of the location loop: the fetch, and the reading of the
\* response up to the next await, return or throw (lines 213-249)
FetchStep ==
  /\ gpc = "fetch"
  /\ \E res \in Responses :
      /\ requests' = Append(requests,
            [attempt |-> attempt, index |-> locIdx,
             location |-> locations[locIdx], token |-> accessToken,
             waited |-> Len(waits), res |-> res])
      /\ IF IsRateLimited(res)
         THEN /\ last429Text' = res.body
              /\ IF HasNextLocation(locIdx, locations)
                 THEN /\ locIdx' = locIdx + 1
                      /\ UNCHANGED <<gpc, outcome, waits>>
                 ELSE /\ locIdx' = locIdx
                      /\ EndOfAttempt(attempt, res.body, waits)
         ELSE /\ gpc' = "done"
              /\ outcome' = ResponseOutcome(res)
              /\ UNCHANGED <<last429Text, locIdx, waits>>
  /\ UNCHANGED <<envLocation, envFallback, accessToken, tokenCalls, locations,
                 attempt, calls>>
  /\ UNCHANGED notGemini

\* variant: the access token is fetched again for the next attempt
BackoffElapsedReacquire ==
  /\ gpc = "backoff"
  /\ StartAttempt(attempt + 1, locations, waits)
  /\ tokenCalls' = tokenCalls + 1
  /\ \E t \in Tokens : accessToken' = t
  /\ UNCHANGED <<envLocation, envFallback, locations, requests, calls>>
  /\ UNCHANGED notGemini

\* the backoff timer fires; `continue` starts the next attempt (lines 245-246)
BackoffElapsed ==
  /\ gpc = "backoff"
  /\ StartAttempt(attempt + 1, locations, waits)
  /\ UNCHANGED <<envLocation, envFallback, accessToken, tokenCalls, locations,
                 requests, calls>>
  /\ UNCHANGED notGemini

\* the resolver taken alone is not running
ResolveAtRest ==
  /\ rcCategory = Undefined
  /\ rcFolders = <<>>
  /\ rcResult = [kind |-> "pending", name |-> "", message |-> ""]

\* callGemini has not been called
GeminiAtRest ==
  /\ gpc = "idle"
  /\ accessToken = Undefined
  /\ tokenCalls = 0
  /\ locations = <<>>
  /\ attempt = 0
  /\ locIdx = 1
  /\ last429Text = Null
  /\ requests = <<>>
  /\ waits = <<>>
  /\ outcome = Pending
  /\ calls = 0

\* no file is being processed and the store holds nothing of interest
FilingAtRest ==
  /\ rootFolders = <<>>
  /\ childFolders = <<>>
  /\ storeChanges = 0
  /\ driveLog = <<>>
  /\ geminiLog = <<>>
  /\ logs = <<>>
  /\ receiptResults = <<>>
  /\ timedOut = FALSE
  /\ acceptedFiles = <<>>
  /\ fileIdx = 0
  /\ isProcessing = FALSE
  /\ upc = "idle"
  /\ isFetchingPast = FALSE
  /\ file = [name |-> "", type |-> "", size |-> 0]
  /\ ppc = "idle"
  /\ totalPages = 0
  /\ pageNum = 0
  /\ results = <<>>
  /\ errors = <<>>
  /\ data = [date |-> Undefined, amount |-> Undefined, vendor |-> Undefined,
             category |-> Undefined]
  /\ dateStr = Undefined
  /\ categoryFolder = Undefined
  /\ newFileName = Undefined
  /\ parentFolderId = Undefined
  /\ targetFolderId = Undefined
  /\ result = [pending |-> TRUE]

InitGemini ==
  /\ envLocation \in EnvValues
  /\ envFallback \in EnvValues
  /\ GeminiAtRest
  /\ ResolveAtRest
  /\ FilingAtRest

NextGemini == CallGemini \/ FetchStep \/ BackoffElapsed

SpecGemini == InitGemini /\ [][NextGemini]_vars

(***************************************************************************)
(* Properties of callGemini                                                *)
(***************************************************************************)
IsOkStatus(st)  == st >= 200 /\ st <= 299
HardError(r)    == r.status # 429 /\ ~IsOkStatus(r.status)
LastRequest     == requests[Len(requests)]
RemoteErrorOf(r) ==
  Throw("Error", "Vertex AI error (" \o ToString(r.status) \o "): " \o r.body)

\* C1: a response whose status is neither 429 nor OK, at any attempt and any
\* position of the location list, ends the call at once with an error that
\* carries that status and body: it is the last request of the call, no
\* later attempt is started and no backoff wait follows it.
C1_HardErrorFailsImmediately ==
  \A i \in 1..Len(requests) :
    HardError(requests[i].res) =>
      /\ i = Len(requests)
      /\ gpc = "done"
      /\ attempt = requests[i].attempt
      /\ Len(waits) = requests[i].waited
      /\ outcome = RemoteErrorOf(requests[i].res)

\* a hard error met in the second attempt at the second location
C1_Witness ==
  /\ Len(requests) > 0
  /\ HardError(LastRequest.res)
  /\ LastRequest.attempt = 1
  /\ LastRequest.index = 2
  /\ outcome.kind = "throw"

\* C2: a 429 from a location that is not the last of the list raises
\* nothing; the very next request goes to the next location of the list, in
\* the same attempt and with no backoff wait in between.
C2_RateLimitAdvancesLocation ==
  \A i \in 1..Len(requests) :
    LET q == requests[i] IN
    (q.res.status = 429 /\ q.index < Len(locations)) =>
      /\ (i = Len(requests) =>
            /\ outcome = Pending
            /\ gpc = "fetch"
            /\ attempt = q.attempt
            /\ locIdx = q.index + 1
            /\ Len(waits) = q.waited)
      /\ (i < Len(requests) =>
            /\ requests[i + 1].attempt = q.attempt
            /\ requests[i + 1].index = q.index + 1
            /\ requests[i + 1].location = locations[q.index + 1]
            /\ requests[i + 1].waited = q.waited)

\* a 429 at the first of three locations, followed by the request to the
\* second one
C2_Witness ==
  /\ Len(locations) = 3
  /\ Len(requests) = 2
  /\ requests[1].res.status = 429
  /\ requests[2].location = locations[2]

\* every location of attempt att was asked and answered 429
AllRateLimited(att) ==
  \A k \in 1..Len(locations) :
    \E i \in 1..Len(requests) :
      /\ requests[i].attempt = att
      /\ requests[i].location = locations[k]
      /\ requests[i].res.status = 429

\* C3: when every location of an attempt answered 429 and attempts remain,
\* nothing is raised, exactly one backoff wait of 800*(attempt+1) ms is
\* made, and the next request goes to the first location of the list.
C3_BackoffThenRestart ==
  \A i \in 1..Len(requests) :
    LET q == requests[i] IN
    (/\ q.res.status = 429
     /\ q.index = Len(locations)
     /\ AllRateLimited(q.attempt)
     /\ q.attempt < maxAttempts - 1) =>
      /\ Len(waits) >= q.waited + 1
      /\ waits[q.waited + 1] = 800 * (q.attempt + 1)
      /\ (i = Len(requests) =>
            /\ outcome = Pending
            /\ gpc \in {"backoff", "fetch"}
            /\ Len(waits) = q.waited + 1)
      /\ (i < Len(requests) =>
            /\ requests[i + 1].attempt = q.attempt + 1
            /\ requests[i + 1].index = 1
            /\ requests[i + 1].location = locations[1]
            /\ requests[i + 1].waited = q.waited + 1)

\* three locations all answered 429, the wait was made and the first
\* location was asked again
C3_Witness ==
  /\ Len(locations) = 3
  /\ Len(requests) = 4
  /\ AllRateLimited(0)
  /\ requests[4].attempt = 1
  /\ requests[4].location = locations[1]
  /\ waits = <<800>>

RateLimitBodies == {r.body : r \in {x \in Responses : x.status = 429}}
IsRateLimitedError(o) ==
  o \in {Throw("Error", "Vertex AI error (429): " \o b) :
           b \in RateLimitBodies \cup {"Resource exhausted"}}
Exhausted ==
  /\ Len(requests) = maxAttempts * Len(locations)
  /\ \A i \in 1..Len(requests) : requests[i].res.status = 429

\* C4: the rate-limited error is raised exactly when every request of every
\* one of the maxAttempts attempts answered 429, i.e. after maxAttempts *
\* |locations| requests; it carries the body of the last 429 received and
\* no backoff wait is made after the final attempt.
C4_RateLimitedIffExhausted ==
  (calls > 0) =>
    /\ IsRateLimitedError(outcome) <=> Exhausted
    /\ IsRateLimitedError(outcome) =>
         /\ gpc = "done"
         /\ outcome.message = "Vertex AI error (429): " \o LastRequest.res.body
         /\ Len(waits) = LastRequest.waited
         /\ Len(waits) = maxAttempts - 1

\* six 429 answers over three locations, the last with an empty body
C4_Witness ==
  /\ Len(locations) = 3
  /\ Len(requests) = 6
  /\ IsRateLimitedError(outcome)
  /\ requests[5].res.body = "quota-a"
  /\ requests[6].res.body = ""

UsableText(r) ==
  IsOkStatus(r.status) /\ r.json /\ r.text \in {TextFull, TextBare}

\* C5: the first OK response that carries a non-empty parseable text ends
\* the call: its parsed payload is returned, however many 429 answers came
\* before it, and no request is sent after it.
C5_FirstUsableResponseReturns ==
  \A i \in 1..Len(requests) :
    UsableText(requests[i].res) =>
      /\ i = Len(requests)
      /\ gpc = "done"
      /\ outcome = Return(JSONparse(requests[i].res.text))
      /\ \A j \in 1..(i - 1) : requests[j].res.status = 429

\* success at the second location of the second attempt, after four 429s,
\* with a status that is OK but not 200
C5_Witness ==
  /\ Len(locations) = 3
  /\ Len(requests) = 5
  /\ LastRequest.res.status = 201
  /\ LastRequest.res.text = TextFull
  /\ outcome.kind = "return"

EmptyResponseError == Throw("Error", "AI kara no outou ga kara desu")

\* C6: an OK response whose text is empty or missing raises the
\* empty-response failure, an OK response whose text does not parse raises
\* a failure of another kind; both end the call at once, no other location
\* and no other attempt follows.
C6_EmptyAndMalformed ==
  \A i \in 1..Len(requests) :
    LET r == requests[i].res IN
    (IsOkStatus(r.status) /\ r.json /\ r.text \notin {TextFull, TextBare}) =>
      /\ i = Len(requests)
      /\ gpc = "done"
      /\ attempt = requests[i].attempt
      /\ Len(waits) = requests[i].waited
      /\ outcome.kind = "throw"
      /\ (r.text \in {Undefined, ""} => outcome = EmptyResponseError)
      /\ (r.text \notin {Undefined, ""} =>
            /\ outcome.name # EmptyResponseError.name
            /\ outcome # EmptyResponseError)

\* a missing text at the first location of the first attempt, with other
\* locations left untried
C6_WitnessEmpty ==
  /\ Len(locations) = 3
  /\ Len(requests) = 1
  /\ requests[1].res.json
  /\ requests[1].res.text = Undefined
  /\ outcome = EmptyResponseError

\* [GOOGLE_LOCATION, fallbackLocation, 'us-central1'] as configured
Precedence ==
  << IF envLocation \in {Undefined, ""} THEN "asia-northeast1" ELSE envLocation,
     envFallback, "us-central1" >>
FirstAt(seq, v) == CHOOSE i \in 1..Len(seq) :
                     seq[i] = v /\ \A j \in 1..(i - 1) : seq[j] # v

\* C7: whatever the configured default and fallback regions, the location
\* list has no duplicates, keeps the order default, fallback, us-central1,
\* holds every configured region, and always contains us-central1.
C7_LocationList ==
  (calls > 0) =>
    /\ \A i, j \in 1..Len(locations) : i # j => locations[i] # locations[j]
    /\ \A i \in 1..Len(locations) :
         \E k \in 1..3 : Precedence[k] = locations[i]
    /\ \A k \in 1..3 :
         Precedence[k] \notin {Undefined, ""} =>
           \E i \in 1..Len(locations) : locations[i] = Precedence[k]
    /\ \A i, j \in 1..Len(locations) :
         i < j => FirstAt(Precedence, locations[i])
                    < FirstAt(Precedence, locations[j])
    /\ \E i \in 1..Len(locations) : locations[i] = "us-central1"

\* the default region is us-central1 and a different fallback is set: the
\* list is the default first, then the fallback
C7_Witness ==
  /\ calls > 0
  /\ envLocation = "us-central1"
  /\ envFallback = "europe-west4"
  /\ locations = <<"us-central1", "europe-west4">>

(***************************************************************************)
(* Drive directories: findFolder, listChildFolders, resolveCategoryFolder  *)
(* A listing is the sequence of {id, name} entries that drive.files.list   *)
(* returns, in the order of the response.                                  *)
(***************************************************************************)
\* res.data.files?.[0]?.id ?? null   for the query name = `name` under the
\* parent whose folders are `folders`
FindFolder(name, folders) ==
  IF \E i \in 1..Len(folders) : folders[i].name = name
  THEN LET i == CHOOSE k \in 1..Len(folders) :
                  /\ folders[k].name = name
                  /\ \A j \in 1..(k - 1) : folders[j].name # name
       IN Coalesce(folders[i].id, Null)
  ELSE Null

\* variant: the list of one entry stops before its last name
CATEGORY_FALLBACKS_Truncated ==
  [kaigihi       |-> <<"kaigihi", "3-ryoshusho", "sonota">>,
   kotsuhi       |-> <<"kotsuhi", "3-ryoshusho", "sonota", "7-sonota">>,
   settaikosaihi |-> <<"settaikosaihi", "3-ryoshusho", "sonota", "7-sonota">>,
   shomohinhi    |-> <<"shomohinhi", "3-ryoshusho", "sonota", "7-sonota">>,
   tsushinhi     |-> <<"tsushinhi", "3-ryoshusho", "sonota", "7-sonota">>,
   sonota        |-> <<"sonota", "7-sonota", "3-ryoshusho">>]

CATEGORY_FALLBACKS ==
  [kaigihi       |-> <<"kaigihi", "3-ryoshusho", "sonota", "7-sonota">>,
   kotsuhi       |-> <<"kotsuhi", "3-ryoshusho", "sonota", "7-sonota">>,
   settaikosaihi |-> <<"settaikosaihi", "3-ryoshusho", "sonota", "7-sonota">>,
   shomohinhi    |-> <<"shomohinhi", "3-ryoshusho", "sonota", "7-sonota">>,
   tsushinhi     |-> <<"tsushinhi", "3-ryoshusho", "sonota", "7-sonota">>,
   sonota        |-> <<"sonota", "7-sonota", "3-ryoshusho">>]

\* variant: a label without an entry takes the list of the sonota entry
CandidatesSonotaDefault(category) ==
  IF category \in DOMAIN CATEGORY_FALLBACKS
  THEN CATEGORY_FALLBACKS[category]
  ELSE CATEGORY_FALLBACKS["sonota"]

\* CATEGORY_FALLBACKS[category] ?? [category, '3-...', 'sonota', '7-sonota']
Candidates(category) ==
  IF category \in DOMAIN CATEGORY_FALLBACKS
  THEN CATEGORY_FALLBACKS[category]
  ELSE <<category, "3-ryoshusho", "sonota", "7-sonota">>

\* new Map(folders.map((f) => [f.name, f.id])).get(name): a later entry of
\* the same name replaces an earlier one
MapGet(folders, name) ==
  IF \E i \in 1..Len(folders) : folders[i].name = name
  THEN LET i == CHOOSE k \in 1..Len(folders) :
                  /\ folders[k].name = name
                  /\ \A j \in (k + 1)..Len(folders) : folders[j].name # name
       IN folders[i].id
  ELSE Undefined

\* variant: the candidates are tried from the last to the first
RECURSIVE FirstFoundReversed(_, _, _)
FirstFoundReversed(cands, folders, i) ==
  IF i > Len(cands) THEN Undefined
  ELSE LET id == MapGet(folders, cands[Len(cands) + 1 - i])
       IN IF Truthy(id) THEN id
          ELSE FirstFoundReversed(cands, folders, i + 1)

\* for (const name of candidates) { const id = folderMap.get(name);
\*                                  if (id) return id; }
RECURSIVE FirstFound(_, _, _)
FirstFound(cands, folders, i) ==
  IF i > Len(cands) THEN Undefined
  ELSE LET id == MapGet(folders, cands[i])
       IN IF Truthy(id) THEN id ELSE FirstFound(cands, folders, i + 1)

\* folders.map((f) => f.name).filter(Boolean).join(', ')
RECURSIVE JoinNames(_, _)
JoinNames(folders, i) ==
  IF i > Len(folders) THEN ""
  ELSE IF ~Truthy(folders[i].name) THEN JoinNames(folders, i + 1)
  ELSE LET rest == JoinNames(folders, i + 1)
       IN IF rest = "" /\ \A j \in (i + 1)..Len(folders) :
                             ~Truthy(folders[j].name)
          THEN folders[i].name
          ELSE folders[i].name \o ", " \o rest

\* variant: the root is taken when no candidate is present
ResolveCategoryFolderUseRoot(category, folders) ==
  LET id == FirstFound(Candidates(category), folders, 1)
  IN IF id # Undefined THEN Return(id) ELSE Return("root")

\* variant: when no candidate is present the first child is taken
ResolveCategoryFolderFirstChild(category, folders) ==
  LET id == FirstFound(Candidates(category), folders, 1)
  IN IF id # Undefined
     THEN Return(id)
     ELSE IF Len(folders) > 0
     THEN Return(folders[1].id)
     ELSE Throw("Error", "category folder not found: " \o category
                         \o ". available: ")

\* resolveCategoryFolder(category, parentId), given the listing of parentId
ResolveCategoryFolder(category, folders) ==
  LET id == FirstFound(Candidates(category), folders, 1)
  IN IF id # Undefined
     THEN Return(id)
     ELSE Throw("Error", "category folder not found: " \o category
                         \o ". available: " \o JoinNames(folders, 1))

(***************************************************************************)
(* resolveCategoryFolder taken alone, over every category and listing      *)
(***************************************************************************)
FolderNames ==
  <<"kaigihi", "kotsuhi", "settaikosaihi", "shomohinhi", "tsushinhi",
    "sonota", "3-ryoshusho", "7-sonota", "zappi">>
NameSet == {FolderNames[i] : i \in 1..Len(FolderNames)}
CategoryInputs == DOMAIN CATEGORY_FALLBACKS \cup {"zappi", "gaichuhi"}

\* the listing of the folders named in S, in the order of FolderNames,
\* followed by a second folder named dup when dup is a name
ListingOf(S, dup) ==
  LET InS(n) == n \in S
      q == SelectSeq(FolderNames, InS)
  IN [i \in 1..Len(q) |-> [id |-> "id:" \o q[i], name |-> q[i]]]
     \o (IF dup = Undefined THEN <<>>
         ELSE <<[id |-> "id2:" \o dup, name |-> dup]>>)

InitResolve ==
  /\ rcCategory \in CategoryInputs
  /\ \E S \in SUBSET NameSet : \E dup \in S \cup {Undefined} :
        rcFolders = ListingOf(S, dup)
  /\ rcResult = Pending
  /\ envLocation = Undefined
  /\ envFallback = Undefined
  /\ GeminiAtRest
  /\ FilingAtRest

Resolve ==
  /\ rcResult = Pending
  /\ rcResult' = ResolveCategoryFolder(rcCategory, rcFolders)
  /\ UNCHANGED <<rcCategory, rcFolders>>
  /\ UNCHANGED notResolve

NextResolve == Resolve

SpecResolve == InitResolve /\ [][NextResolve]_vars

PresentAt(cands, folders) ==
  {i \in 1..Len(cands) :
     \E k \in 1..Len(folders) : folders[k].name = cands[i]}
Least(S) == CHOOSE i \in S : \A j \in S : i <= j

\* C10: for every category of the fixed enumeration and every set of child
\* directories, resolveCategoryFolder returns the id of a directory whose
\* name is the first name of that category's CATEGORY_FALLBACKS list that
\* is present among the children; the category-named directory wins over a
\* generic bucket.
C10_FirstPresentCandidate ==
  (rcResult # Pending /\ rcCategory \in DOMAIN CATEGORY_FALLBACKS) =>
    LET cands == CATEGORY_FALLBACKS[rcCategory]
        present == PresentAt(cands, rcFolders)
    IN IF present = {}
       THEN rcResult.kind = "throw"
       ELSE /\ rcResult.kind = "return"
            /\ \E k \in 1..Len(rcFolders) :
                  /\ rcFolders[k].name = cands[Least(present)]
                  /\ rcFolders[k].id = rcResult.value

\* the category directory and two generic buckets exist; the category
\* directory is chosen
C10_Witness ==
  /\ rcCategory = "kotsuhi"
  /\ \E k \in 1..Len(rcFolders) : rcFolders[k].name = "3-ryoshusho"
  /\ \E k \in 1..Len(rcFolders) : rcFolders[k].name = "sonota"
  /\ rcResult = Return("id:kotsuhi")

FixedEnumeration ==
  {"kaigihi", "kotsuhi", "settaikosaihi", "shomohinhi", "tsushinhi",
   "sonota"}

\* C11: for every category label outside the fixed enumeration,
\* resolveCategoryFolder tries the names <<category, "3-ryoshusho",
\* "sonota", "7-sonota">> in exactly that order and returns the id of the
\* first of them that is present among the children; it fails when none is.
C11_GenericCandidates ==
  (rcResult # Pending /\ rcCategory \notin FixedEnumeration) =>
    LET generic == <<rcCategory, "3-ryoshusho", "sonota", "7-sonota">>
        present == PresentAt(generic, rcFolders)
    IN IF present = {}
       THEN rcResult.kind = "throw"
       ELSE /\ rcResult.kind = "return"
            /\ \E k \in 1..Len(rcFolders) :
                  /\ rcFolders[k].name = generic[Least(present)]
                  /\ rcFolders[k].id = rcResult.value

\* an unlisted label whose own directory is missing while three generic
\* buckets exist: the first generic name of the list is chosen
C11_Witness ==
  /\ rcCategory = "zappi"
  /\ rcFolders = ListingOf({"7-sonota", "sonota", "3-ryoshusho"}, Undefined)
  /\ rcResult = Return("id:3-ryoshusho")

LastOf(list) == list[Len(list)]

\* C12 as stated: every entry of CATEGORY_FALLBACKS is a non-empty list
\* whose last element is one and the same catch-all name, the name that
\* ends the list of every other entry and the generic list.
C12_SameLastName ==
  (rcCategory \in DOMAIN CATEGORY_FALLBACKS) =>
    LET list == CATEGORY_FALLBACKS[rcCategory]
    IN /\ Len(list) > 0
       /\ \A c \in DOMAIN CATEGORY_FALLBACKS :
             LastOf(list) = LastOf(CATEGORY_FALLBACKS[c])
       /\ LastOf(list) = LastOf(Candidates("zappi"))

\* C12 amended: every entry of CATEGORY_FALLBACKS is a non-empty list that
\* holds both generic bucket names and ends with one of them: "7-sonota"
\* for the five named categories, as for the generic list, and
\* "3-ryoshusho" for the sonota entry; a parent whose only directory has
\* that last name resolves to it.
C12_LastIsGenericBucket ==
  (rcCategory \in DOMAIN CATEGORY_FALLBACKS) =>
    LET list == CATEGORY_FALLBACKS[rcCategory]
        names == {list[i] : i \in 1..Len(list)}
    IN /\ Len(list) > 0
       /\ {"3-ryoshusho", "7-sonota"} \subseteq names
       /\ LastOf(list) = (IF rcCategory = "sonota" THEN "3-ryoshusho"
                                                  ELSE "7-sonota")
       /\ LastOf(Candidates("zappi")) = "7-sonota"
       /\ (/\ rcResult # Pending
           /\ Len(rcFolders) = 1
           /\ rcFolders[1].name = LastOf(list))
          => rcResult = Return(rcFolders[1].id)

\* the sonota category under a parent that holds the receipts bucket only
C12_Witness ==
  /\ rcCategory = "sonota"
  /\ rcFolders = ListingOf({"3-ryoshusho"}, Undefined)
  /\ rcResult = Return("id:3-ryoshusho")

(***************************************************************************)
(* String functions used by the filing code                                *)
(***************************************************************************)
Digits == <<"0", "1", "2", "3", "4", "5", "6", "7", "8", "9">>
IsDigit(c) == \E d \in 1..10 : Digits[d] = c
DigitVal(c) == (CHOOSE d \in 1..10 : Digits[d] = c) - 1
CharAt(str, i) == SubSeq(str, i, i)

\* `${v}` inside a template literal
Str(v) == IF v = Undefined THEN "undefined"
          ELSE IF v = Null THEN "null" ELSE v

\* position of the first sep at or after i in str, or Len(str) + 1
RECURSIVE NextSep(_, _, _)
NextSep(str, sep, i) ==
  IF i > Len(str) \/ CharAt(str, i) = sep THEN i
  ELSE NextSep(str, sep, i + 1)

\* str.split(sep) for a one-character separator, from position i
RECURSIVE SplitFrom(_, _, _)
SplitFrom(str, sep, i) ==
  LET j == NextSep(str, sep, i)
  IN <<SubSeq(str, i, j - 1)>>
     \o (IF j > Len(str) THEN <<>> ELSE SplitFrom(str, sep, j + 1))

Split(str, sep) == SplitFrom(str, sep, 1)

\* arr[i] of a JavaScript array (0-based i): undefined past the end
At(arr, i) == IF i + 1 <= Len(arr) THEN arr[i + 1] ELSE Undefined

\* number of leading decimal digits of str from position i
RECURSIVE DigitRun(_, _)
DigitRun(str, i) ==
  IF i <= Len(str) /\ IsDigit(CharAt(str, i)) THEN 1 + DigitRun(str, i + 1)
  ELSE 0

RECURSIVE DecimalValue(_, _)
DecimalValue(str, n) ==
  IF n = 0 THEN 0
  ELSE 10 * DecimalValue(str, n - 1) + DigitVal(CharAt(str, n))

\* parseInt(str, 10) for an unsigned numeral: NaN when str does not start
\* with a digit
ParseInt(str) ==
  LET n == IF str \in {Undefined, Null} THEN 0 ELSE DigitRun(str, 1)
  IN IF n = 0 THEN [nan |-> TRUE, val |-> 0]
     ELSE [nan |-> FALSE, val |-> DecimalValue(str, n)]

\* str.slice(-n)
SliceLast(str, n) ==
  SubSeq(str, IF Len(str) > n THEN Len(str) - n + 1 ELSE 1, Len(str))

Upper == <<"A", "B", "C", "D", "E", "F", "G", "H", "I", "J", "K", "L", "M",
           "N", "O", "P", "Q", "R", "S", "T", "U", "V", "W", "X", "Y", "Z">>
Lower == <<"a", "b", "c", "d", "e", "f", "g", "h", "i", "j", "k", "l", "m",
           "n", "o", "p", "q", "r", "s", "t", "u", "v", "w", "x", "y", "z">>

\* str.toLowerCase()
RECURSIVE ToLowerCase(_)
ToLowerCase(str) ==
  IF Len(str) = 0 THEN ""
  ELSE LET c == CharAt(str, 1)
           lc == IF \E k \in 1..26 : Upper[k] = c
                 THEN Lower[CHOOSE k \in 1..26 : Upper[k] = c] ELSE c
       IN lc \o ToLowerCase(SubSeq(str, 2, Len(str)))

\* str.endsWith(suffix)
EndsWith(str, suffix) ==
  Len(str) >= Len(suffix) /\ SliceLast(str, Len(suffix)) = suffix

(***************************************************************************)
(* Routing of a page by its date (lines 297-315 and 376-394)               *)
(***************************************************************************)
ROOT_FOLDER_ID == "root"
LegacyFolder   == "25nen-made-no-keihi"

\* new Date().toISOString().split('T')[0]
Today(now) == At(Split(now, "T"), 0)

\* const dateStr = data.date || new Date().toISOString().split('T')[0]
DateStrOf(d, now) == OrElse(d.date, Today(now))

\* variant: the cutoff year itself is not legacy (year < 2025)
IsLegacyYearExclusive(year) == ~year.nan /\ year.val < 2025

\* year <= 2025, where year = parseInt(yyyy, 10); false for NaN
IsLegacyYear(year) == ~year.nan /\ year.val <= 2025

\* the name looked up under the root: the legacy directory, or
\* `${yy}${mm}` with yy = yyyy.slice(-2)
ParentFolderName(date) ==
  LET parts == Split(date, "-")
      yyyy  == At(parts, 0)
      mm    == At(parts, 1)
  IN IF IsLegacyYear(ParseInt(yyyy)) THEN LegacyFolder
     ELSE Str(SliceLast(yyyy, 2)) \o Str(mm)

\* the message of the error thrown when that directory is missing
ParentMissingMessage(date) ==
  IF ParentFolderName(date) = LegacyFolder
  THEN "[25nen-made-no-keihi] folder not found"
  ELSE "month folder not found: " \o ParentFolderName(date)

\* variant: a missing directory falls back to the root itself
ParentOrThrowUseRoot(id, date) ==
  IF ~Truthy(id) THEN Return(ROOT_FOLDER_ID) ELSE Return(id)

\* if (!oldFolder) throw ...; if (!monthFolderId) throw ...
ParentOrThrow(id, date) ==
  IF ~Truthy(id) THEN Throw("Error", ParentMissingMessage(date))
  ELSE Return(id)

(***************************************************************************)
(* processReceipt / processPdf.  One step per await: the model call, the   *)
(* lookup of the parent, the listing of its children, the upload, and the  *)
(* PDF page iterator.                                                      *)
(***************************************************************************)
MaxPages == 3            \* pages of the longest PDF explored

FolderMime == "application/vnd.google-apps.folder"

Files ==
  { [name |-> "empty.jpg", type |-> "image/jpeg", size |-> 0],
    [name |-> "r.jpg", type |-> "image/jpeg", size |-> 1000],
    [name |-> "photo", type |-> "", size |-> 1000],
    [name |-> "SCAN.PDF", type |-> "", size |-> 1000] }

\* file.type === 'application/pdf' || file.name.toLowerCase().endsWith('.pdf')
IsPdf(f) ==
  f.type = "application/pdf" \/ EndsWith(ToLowerCase(f.name), ".pdf")

\* new Date().toISOString() at the time a page is processed
Clock == {"2025-12-31T23:59:59.000Z", "2026-01-01T00:00:00.000Z"}

\* what JSON.parse(text) of a model answer may be
ModelAnswers ==
  { [date |-> "2024-03-05", amount |-> "1200", vendor |-> "Example Taxi",
     category |-> "kotsuhi"],
    [date |-> "2025-12-31", amount |-> "500", vendor |-> "Cafe",
     category |-> "kaigihi"],
    [date |-> "2026-01-15", amount |-> "1200", vendor |-> "Example Taxi",
     category |-> "kotsuhi"],
    [date |-> "2026-11-02", amount |-> Undefined, vendor |-> Undefined,
     category |-> Undefined],
    [date |-> Undefined, amount |-> "0", vendor |-> "", category |-> "sonota"],
    [date |-> "2127-10-09", amount |-> Null, vendor |-> Null,
     category |-> "zappi"] }

\* an error callGemini may throw
GeminiErrors ==
  { Throw("Error", "Vertex AI error (429): quota-a") }

NoData == [date |-> Undefined, amount |-> Undefined, vendor |-> Undefined,
           category |-> Undefined]

\* the folders of the store at the start
RootListings ==
  { <<[id |-> "id:legacy", name |-> LegacyFolder]>>,
    <<[id |-> "id:legacy", name |-> LegacyFolder],
      [id |-> "id:2601", name |-> "2601"], [id |-> "id:2611", name |-> "2611"],
      [id |-> "id:2710", name |-> "2710"]>> }
\* the names of the folders under each of them
ChildNames(parentName) ==
  CASE parentName = LegacyFolder -> <<"kotsuhi", "zappi">>
    [] parentName = "2601" -> <<"kotsuhi", "3-ryoshusho", "sonota">>
    [] parentName = "2611" -> <<"3-ryoshusho">>
    [] OTHER -> <<>>

ChildListing(names, parent) ==
  [i \in 1..Len(names) |-> [id |-> parent \o "/" \o names[i],
                            name |-> names[i]]]

\* variant: the listing made for an earlier page is used again
ChildrenOfCached(parentId) ==
  IF parentId = ROOT_FOLDER_ID THEN rootFolders
  ELSE IF \E j \in 1..Len(driveLog) :
             /\ driveLog[j].op = "files.list" /\ driveLog[j].name = Undefined
             /\ driveLog[j].parent = parentId
  THEN driveLog[CHOOSE j \in 1..Len(driveLog) :
                  /\ driveLog[j].op = "files.list"
                  /\ driveLog[j].name = Undefined
                  /\ driveLog[j].parent = parentId].files
  ELSE IF parentId \in DOMAIN childFolders THEN childFolders[parentId]
  ELSE <<>>

\* listChildFolders(parentId): res.data.files ?? []
ChildrenOf(parentId) ==
  IF parentId = ROOT_FOLDER_ID THEN rootFolders
  ELSE IF parentId \in DOMAIN childFolders THEN childFolders[parentId]
  ELSE <<>>

\* variant: the pages of a PDF are numbered by the records stored so far
FileNameOfRenumbered(date, category, d, f, page) ==
  Str(date) \o "_" \o Str(category) \o "_" \o Str(OrElse(d.vendor, "fumei"))
  \o (IF IsPdf(f) THEN "_p" \o ToString(Len(results) + 1) \o ".png"
      ELSE ".jpg")

\* `${dateStr}_${categoryFolder}_${data.vendor || 'fumei'}.jpg`, and
\* `..._p${pageNum}.png` for a page of a PDF
FileNameOf(date, category, d, f, page) ==
  Str(date) \o "_" \o Str(category) \o "_" \o Str(OrElse(d.vendor, "fumei"))
  \o (IF IsPdf(f) THEN "_p" \o ToString(page) \o ".png" ELSE ".jpg")

\* media.mimeType of the upload
UploadMime(f) == IF IsPdf(f) THEN "image/png" ELSE OrElse(f.type, "image/jpeg")

\* variant: the record carries the fields as they were parsed
ReceiptDataOfRaw(date, category, d, fileName) ==
  [date |-> date, amount |-> d.amount, vendor |-> d.vendor,
   category |-> category, fileName |-> fileName]

\* the ReceiptData built after the upload
ReceiptDataOf(date, category, d, fileName) ==
  [date |-> date, amount |-> Coalesce(d.amount, "0"),
   vendor |-> Coalesce(d.vendor, "fumei"), category |-> category,
   fileName |-> fileName]

\* errors.join(', ')
RECURSIVE Join(_, _)
Join(arr, i) ==
  IF i > Len(arr) THEN ""
  ELSE IF i = Len(arr) THEN arr[i]
  ELSE arr[i] \o ", " \o Join(arr, i + 1)

\* the locals of the page go out of scope
ClearPage ==
  /\ data' = NoData
  /\ dateStr' = Undefined
  /\ categoryFolder' = Undefined
  /\ newFileName' = Undefined
  /\ parentFolderId' = Undefined
  /\ targetFolderId' = Undefined

\* variant: the page that failed is processed again
CatchRetry(msg) ==
  /\ ClearPage
  /\ IF IsPdf(file)
     THEN /\ errors' = Append(errors, "page" \o ToString(pageNum) \o ": "
                                       \o msg)
          /\ ppc' = "extract"
          /\ UNCHANGED result
     ELSE /\ result' = [success |-> FALSE, message |-> msg]
          /\ ppc' = "done"
          /\ UNCHANGED errors

\* variant: the failure of a page is put in front of the earlier ones
CatchUnshift(msg) ==
  /\ ClearPage
  /\ IF IsPdf(file)
     THEN /\ errors' = <<"page" \o ToString(pageNum) \o ": " \o msg>>
                       \o errors
          /\ ppc' = "nextPage"
          /\ UNCHANGED result
     ELSE /\ result' = [success |-> FALSE, message |-> msg]
          /\ ppc' = "done"
          /\ UNCHANGED errors

\* an error thrown while a page is processed: caught per page in processPdf
\* (lines 416-420), caught for the whole call in processReceipt (341-347)
Catch(msg) ==
  /\ ClearPage
  /\ IF IsPdf(file)
     THEN /\ errors' = Append(errors, "page" \o ToString(pageNum) \o ": "
                                       \o msg)
          /\ ppc' = "nextPage"
          /\ UNCHANGED result
     ELSE /\ result' = [success |-> FALSE, message |-> msg]
          /\ ppc' = "done"
          /\ UNCHANGED errors

HeadIsError(lines) ==
  Len(lines[1]) >= 7 /\ SubSeq(lines[1], 1, 7) = "error: "

\* variant: the files are taken from the last to the first
FileAtReversed(i) == acceptedFiles[Len(acceptedFiles) + 1 - i]

\* for (const file of acceptedFiles): the file of the i-th iteration
FileAt(i) == acceptedFiles[i]

\* onDrop(acceptedFiles) up to the first await, which is compressImage of
\* the first file (lines 787-799); the dropzone is disabled while
\* isProcessing (lines 838-842)
OnDrop ==
  /\ upc = "idle"
  /\ ~isProcessing
  /\ Len(acceptedFiles) > 0
  /\ isProcessing' = TRUE
  /\ logs' = <<"start: " \o FileAt(1).name>>
  /\ receiptResults' = <<>>
  /\ fileIdx' = 1
  /\ upc' = "compress"
  /\ UNCHANGED <<timedOut, acceptedFiles>>
  /\ UNCHANGED <<dvars, pvars>>
  /\ UNCHANGED notFiling

\* variant: an error of one file leaves the for..of
OnDropAbort(lines) ==
  IF fileIdx < Len(acceptedFiles) /\ ~HeadIsError(lines)
  THEN /\ fileIdx' = fileIdx + 1
       /\ logs' = logs \o lines \o <<"start: " \o acceptedFiles[fileIdx + 1].name>>
       /\ upc' = "compress"
       /\ UNCHANGED isProcessing
  ELSE /\ logs' = logs \o lines \o <<"all files processed">>
       /\ isProcessing' = FALSE
       /\ upc' = "finished"
       /\ UNCHANGED fileIdx

\* the for..of of onDrop after the lines about the current file: the start
\* line of the next file up to await compressImage, or the finally block
\* (lines 793-799, 831-835)
OnDropContinue(lines) ==
  IF fileIdx < Len(acceptedFiles)
  THEN /\ fileIdx' = fileIdx + 1
       /\ logs' = logs \o lines \o <<"start: " \o FileAt(fileIdx + 1).name>>
       /\ upc' = "compress"
       /\ UNCHANGED isProcessing
  ELSE /\ logs' = logs \o lines \o <<"all files processed">>
       /\ isProcessing' = FALSE
       /\ upc' = "finished"
       /\ UNCHANGED fileIdx

\* compressImage returns the file as it is (a PDF, or a file below the
\* size limit, lines 698-701); onDrop calls processReceipt(formData), which
\* runs up to its first await (lines 807-812, 263-293, 351-360)
ProcessReceipt ==
  /\ upc = "compress"
  /\ ppc \in {"idle", "done"}
  /\ upc' = "awaiting"
  /\ LET f == FileAt(fileIdx)
     IN /\ file' = [name |-> f.name, type |-> f.type, size |-> f.size]
        /\ IF f.size = 0
           THEN /\ result' = [success |-> FALSE, message |-> "file is empty"]
                /\ ppc' = "done"
                /\ totalPages' = 0
           ELSE IF IsPdf(f)
           THEN /\ totalPages' = f.pages
                /\ ppc' = "nextPage"
                /\ result' = [pending |-> TRUE]
           ELSE /\ ppc' = "extract"
                /\ totalPages' = 0
                /\ result' = [pending |-> TRUE]
  /\ pageNum' = 0
  /\ results' = <<>>
  /\ errors' = <<>>
  /\ UNCHANGED <<data, dateStr, categoryFolder, newFileName, parentFolderId,
                 targetFolderId>>
  /\ UNCHANGED dvars
  /\ UNCHANGED <<logs, receiptResults, timedOut, acceptedFiles, fileIdx,
                 isProcessing>>
  /\ UNCHANGED notFiling

\* the call of processReceipt does not reach the server: the await throws
\* and the catch of onDrop logs the error (lines 826-830)
OnDropCatch ==
  /\ upc = "compress"
  /\ ppc \in {"idle", "done"}
  /\ OnDropContinue(<<"error: " \o FileAt(fileIdx).name
                      \o " - request failed">>)
  /\ UNCHANGED <<receiptResults, timedOut, acceptedFiles>>
  /\ UNCHANGED <<dvars, pvars>>
  /\ UNCHANGED notFiling

\* the error the page iterator throws when a page cannot be rendered
RenderError == Throw("Error", "page render failed")

\* for await (const pageImage of pages): the next page, or an error of the
\* iterator, which no try of processPdf encloses and which the catch of
\* processReceipt turns into its result (lines 360-361, 278-280, 341-347),
\* or the end of the loop and the return of processPdf (lines 423-429)
NextPage ==
  /\ ppc = "nextPage"
  /\ \/ /\ pageNum < totalPages
        /\ pageNum' = pageNum + 1
        /\ ppc' = "extract"
        /\ UNCHANGED result
     \/ /\ pageNum < totalPages
        /\ result' = [success |-> FALSE, message |-> RenderError.message]
        /\ ppc' = "done"
        /\ UNCHANGED pageNum
     \/ /\ pageNum >= totalPages
        /\ ppc' = "done"
        /\ UNCHANGED pageNum
        /\ result' =
               IF Len(results) = 0
               THEN [success |-> FALSE,
                     message |-> "PDF failed: " \o Join(errors, 1)]
               ELSE [success |-> TRUE,
                     message |-> "PDF " \o ToString(pageNum) \o " pages, "
                        \o ToString(Len(results)) \o " saved"
                        \o (IF Len(errors) > 0
                            THEN " (" \o ToString(Len(errors))
                                 \o " pages failed)"
                            ELSE ""),
                     results |-> results]
  /\ UNCHANGED <<file, totalPages, results, errors, data, dateStr,
                 categoryFolder, newFileName, parentFolderId, targetFolderId>>
  /\ UNCHANGED dvars
  /\ UNCHANGED uivars
  /\ UNCHANGED notFiling

\* const data = await callGemini(...), and the naming of the page up to the
\* call of findFolder (lines 293-301 and 374-381)
Extract ==
  /\ ppc = "extract"
  /\ geminiLog' = Append(geminiLog, [file |-> fileIdx, page |-> pageNum])
  /\ \/ \E e \in GeminiErrors : Catch(e.message)
     \/ \E d \in ModelAnswers : \E now \in Clock :
          /\ data' = d
          /\ dateStr' = DateStrOf(d, now)
          /\ categoryFolder' = OrElse(d.category, "sonota")
          /\ newFileName' = FileNameOf(DateStrOf(d, now),
                                       OrElse(d.category, "sonota"), d, file,
                                       pageNum)
          /\ ppc' = "findParent"
          /\ UNCHANGED <<parentFolderId, targetFolderId, errors, result>>
  /\ UNCHANGED <<file, totalPages, pageNum, results>>
  /\ UNCHANGED <<rootFolders, childFolders, storeChanges, driveLog>>
  /\ UNCHANGED uivars
  /\ UNCHANGED notFiling

\* await findFolder(name, ROOT_FOLDER_ID) and the test of its result
\* (lines 304-315 and 383-394)
FindParent ==
  /\ ppc = "findParent"
  /\ LET name == ParentFolderName(dateStr)
         id   == FindFolder(name, ChildrenOf(ROOT_FOLDER_ID))
         r    == ParentOrThrow(id, dateStr)
     IN /\ driveLog' = Append(driveLog,
              [op |-> "files.list", name |-> name, parent |-> ROOT_FOLDER_ID,
               mimeType |-> FolderMime, file |-> fileIdx, page |-> pageNum, date |-> dateStr,
               category |-> categoryFolder,
               answer |-> id,
               files |-> IF id = Null THEN <<>>
                         ELSE <<[id |-> id, name |-> name]>>])
        /\ IF r.kind = "throw"
           THEN Catch(r.message)
           ELSE /\ parentFolderId' = r.value
                /\ ppc' = "listChildren"
                /\ UNCHANGED <<data, dateStr, categoryFolder, newFileName,
                               targetFolderId, errors, result>>
  /\ UNCHANGED <<file, totalPages, pageNum, results>>
  /\ UNCHANGED <<rootFolders, childFolders, storeChanges, geminiLog>>
  /\ UNCHANGED uivars
  /\ UNCHANGED notFiling

\* await resolveCategoryFolder(categoryFolder, parentFolderId): the listing
\* of the children and the choice among them (lines 317, 396, 468-480)
ListChildren ==
  /\ ppc = "listChildren"
  /\ LET folders == ChildrenOf(parentFolderId)
         r       == ResolveCategoryFolder(categoryFolder, folders)
     IN /\ driveLog' = Append(driveLog,
              [op |-> "files.list", name |-> Undefined,
               parent |-> parentFolderId, mimeType |-> FolderMime,
               file |-> fileIdx, page |-> pageNum, date |-> dateStr,
               category |-> categoryFolder,
               answer |-> JoinNames(folders, 1),
               files |-> folders])
        /\ IF r.kind = "throw"
           THEN Catch(r.message)
           ELSE /\ targetFolderId' = r.value
                /\ ppc' = "upload"
                /\ UNCHANGED <<data, dateStr, categoryFolder, newFileName,
                               parentFolderId, errors, result>>
  /\ UNCHANGED <<file, totalPages, pageNum, results>>
  /\ UNCHANGED <<rootFolders, childFolders, storeChanges, geminiLog>>
  /\ UNCHANGED uivars
  /\ UNCHANGED notFiling

\* variant: the outcome of the upload is not looked at
UploadResolvedUnchecked(stored) == TRUE

\* await drive.files.create(...) goes on to the next statement when the
\* request succeeded and throws when it failed (lines 324, 402)
UploadResolved(stored) == stored

\* await drive.files.create(...) and the record of the page
\* (lines 320-339 and 398-415)
Upload ==
  /\ ppc = "upload"
  /\ \E stored \in BOOLEAN :
       /\ driveLog' = Append(driveLog,
             [op |-> "files.create", name |-> newFileName,
              parent |-> targetFolderId, mimeType |-> UploadMime(file),
              file |-> fileIdx, page |-> pageNum, date |-> dateStr,
               category |-> categoryFolder,
              answer |-> IF stored THEN "created" ELSE "failed",
              files |-> <<>>])
       /\ IF ~UploadResolved(stored)
          THEN Catch("upload failed") /\ UNCHANGED results
          ELSE /\ ClearPage
               /\ UNCHANGED errors
               /\ IF IsPdf(file)
                  THEN /\ results' = Append(results,
                             ReceiptDataOf(dateStr, categoryFolder, data,
                                           newFileName))
                       /\ ppc' = "nextPage"
                       /\ UNCHANGED result
                  ELSE /\ result' =
                            [success |-> TRUE,
                             message |-> "saved [" \o newFileName \o "]",
                             data |-> ReceiptDataOf(dateStr, categoryFolder,
                                                    data, newFileName)]
                       /\ ppc' = "done"
                       /\ UNCHANGED results
  /\ UNCHANGED <<file, totalPages, pageNum>>
  /\ UNCHANGED <<rootFolders, childFolders, storeChanges, geminiLog>>
  /\ UNCHANGED uivars
  /\ UNCHANGED notFiling

\* a file that may be dropped: a file of Files and, for a PDF, the number
\* of pages it holds
DroppedFiles ==
  {[name |-> f.name, type |-> f.type, size |-> f.size, pages |-> 0] :
     f \in {g \in Files : ~IsPdf(g)}}
  \cup {[name |-> f.name, type |-> f.type, size |-> f.size, pages |-> n] :
          f \in {g \in Files : IsPdf(g)}, n \in 1..MaxPages}

\* the page is loaded, the files of batch are about to be dropped, and the
\* store holds listing under the root
StartFiling(batch, listing) ==
  /\ acceptedFiles = batch
  /\ rootFolders = listing
  /\ childFolders =
       [p \in {listing[i].id : i \in 1..Len(listing)} |->
          LET i == CHOOSE k \in 1..Len(listing) : listing[k].id = p
          IN ChildListing(ChildNames(listing[i].name), p)]
  /\ storeChanges = 0
  /\ driveLog = <<>>
  /\ geminiLog = <<>>
  /\ logs = <<>>
  /\ receiptResults = <<>>
  /\ timedOut = FALSE
  /\ fileIdx = 0
  /\ isProcessing = FALSE
  /\ upc = "idle"
  /\ isFetchingPast = FALSE
  /\ file = [name |-> "", type |-> "", size |-> 0]
  /\ ppc = "idle"
  /\ totalPages = 0
  /\ pageNum = 0
  /\ results = <<>>
  /\ errors = <<>>
  /\ data = NoData
  /\ dateStr = Undefined
  /\ categoryFolder = Undefined
  /\ newFileName = Undefined
  /\ parentFolderId = Undefined
  /\ targetFolderId = Undefined
  /\ result = [pending |-> TRUE]
  /\ envLocation = Undefined
  /\ envFallback = Undefined
  /\ GeminiAtRest
  /\ ResolveAtRest

InitFiling ==
  \E d \in DroppedFiles : \E listing \in RootListings :
     StartFiling(<<d>>, listing)

\* onDrop after await processReceipt(formData) (lines 811-825)
OnDropResult ==
  /\ ppc = "done"
  /\ upc = "awaiting"
  /\ IF result.success
     THEN /\ OnDropContinue(<<"done: " \o result.message>>)
          /\ receiptResults' =
               IF "results" \in DOMAIN result
               THEN receiptResults \o result.results
               ELSE IF "data" \in DOMAIN result
               THEN Append(receiptResults, result.data)
               ELSE receiptResults
     ELSE /\ OnDropContinue(<<"error: " \o FileAt(fileIdx).name \o " - "
                              \o result.message>>)
          /\ UNCHANGED receiptResults
  /\ UNCHANGED <<timedOut, acceptedFiles>>
  /\ UNCHANGED <<dvars, pvars>>
  /\ UNCHANGED notFiling

NextFiling ==
  OnDrop \/ ProcessReceipt \/ OnDropCatch \/ NextPage \/ Extract
  \/ FindParent \/ ListChildren \/ Upload \/ OnDropResult

SpecFiling == InitFiling /\ [][NextFiling]_vars

(***************************************************************************)
(* onDrop of the page that awaits processReceipt under withTimeout          *)
(* (src/app/page.tsx lines 162-195)                                         *)
(***************************************************************************)
\* setTimeout(() => reject(new Error('timed out')), timeoutMs) fires while
\* onDrop awaits Promise.race([promise, timeoutPromise]): the await throws,
\* the catch of onDrop logs the message; nothing is sent to processReceipt
OnDropTimeout ==
  /\ upc = "awaiting"
  /\ ~timedOut
  /\ timedOut' = TRUE
  /\ OnDropContinue(<<"error: " \o FileAt(fileIdx).name \o " - timed out">>)
  /\ UNCHANGED <<receiptResults, acceptedFiles>>
  /\ UNCHANGED <<dvars, pvars>>
  /\ UNCHANGED notFiling

InitDeadline ==
  /\ InitFiling
  /\ Len(rootFolders) = 4

NextDeadline == NextFiling \/ OnDropTimeout

SpecDeadline == InitDeadline /\ [][NextDeadline]_vars

(***************************************************************************)
(* The store is shared: while a PDF is processed, someone else renames,    *)
(* creates or removes a folder.  findFolder and listChildFolders query the *)
(* store each time they are called (lines 433-457).                        *)
(***************************************************************************)
\* the dropped file called name, holding the given number of pages
DroppedAs(name, pages) ==
  CHOOSE d \in [name : {name}, type : {"", "image/jpeg"}, size : {0, 1000},
                pages : {pages}] :
    \E f \in Files : f.name = d.name /\ f.type = d.type /\ f.size = d.size

MaxChanges == 1          \* changes made by others while a file is processed

\* seq without its entries named name
Without(seq, name) == SelectSeq(seq, LAMBDA f : f.name # name)
\* seq with its entries named from renamed to to
Renamed(seq, from, to) ==
  [i \in 1..Len(seq) |->
     IF seq[i].name = from THEN [id |-> seq[i].id, name |-> to] ELSE seq[i]]
HasName(seq, name) == \E i \in 1..Len(seq) : seq[i].name = name

\* someone renames the folder kotsuhi of 2601, creates kaigihi in the
\* legacy folder, or removes the folder 2601
ExternalChange ==
  /\ storeChanges < MaxChanges
  /\ upc = "awaiting"
  /\ storeChanges' = storeChanges + 1
  /\ \/ /\ "id:2601" \in DOMAIN childFolders
        /\ HasName(childFolders["id:2601"], "kotsuhi")
        /\ childFolders' =
             [childFolders EXCEPT !["id:2601"] =
                Renamed(@, "kotsuhi", "kotsuhi-old")]
        /\ UNCHANGED rootFolders
     \/ /\ "id:legacy" \in DOMAIN childFolders
        /\ ~HasName(childFolders["id:legacy"], "kaigihi")
        /\ childFolders' =
             [childFolders EXCEPT !["id:legacy"] =
                Append(@, [id |-> "id:legacy/kaigihi", name |-> "kaigihi"])]
        /\ UNCHANGED rootFolders
     \/ /\ HasName(rootFolders, "2601")
        /\ rootFolders' = Without(rootFolders, "2601")
        /\ childFolders' =
             [p \in DOMAIN childFolders \ {"id:2601"} |-> childFolders[p]]
  /\ UNCHANGED <<driveLog, geminiLog>>
  /\ UNCHANGED <<pvars, uivars>>
  /\ UNCHANGED notFiling

InitShared ==
  \E listing \in RootListings :
     Len(listing) = 4 /\ StartFiling(<<DroppedAs("SCAN.PDF", 2)>>, listing)

NextShared == NextFiling \/ ExternalChange

SpecShared == InitShared /\ [][NextShared]_vars

(***************************************************************************)
(* The page with its two operations: the dropzone (onDrop) and the button  *)
(* of the past data (fetchPastData, lines 764-785).                        *)
(***************************************************************************)
\* a record of a receipt filed in the past
PastRecord ==
  [date |-> "2024-03-05", amount |-> "300", vendor |-> "Old Shop",
   category |-> "kotsuhi", fileName |-> "2024-03-05_kotsuhi_Old Shop.jpg"]

\* how await fetchPastReceipts() settles: the object it returns, as the
\* caller reads it (result.success, result.results, result.message), or
\* the error it throws
PastOutcomes ==
  { Return([success |-> TRUE, message |-> "1 past receipt",
            results |-> <<PastRecord>>]),
    Return([success |-> FALSE, message |-> "drive error", results |-> <<>>]),
    Throw("Error", "request failed") }

\* a click on the button, enabled unless isProcessing || isFetchingPast
\* (lines 876-880): fetchPastData up to await fetchPastReceipts()
\* (lines 764-769)
FetchPastData ==
  /\ ~(isProcessing \/ isFetchingPast)
  /\ isFetchingPast' = TRUE
  /\ logs' = <<"fetching past data">>
  /\ receiptResults' = <<>>
  /\ UNCHANGED <<timedOut, acceptedFiles, fileIdx, isProcessing, upc>>
  /\ UNCHANGED <<dvars, pvars>>
  /\ UNCHANGED <<gvars, rvars>>

\* fetchPastData after await fetchPastReceipts(): the result, the catch
\* and the finally block (lines 770-784)
FetchPastSettled ==
  /\ isFetchingPast
  /\ \E o \in PastOutcomes :
       IF o.kind = "return" /\ o.value.success
       THEN /\ receiptResults' = o.value.results
            /\ logs' = Append(logs, "done: " \o o.value.message)
       ELSE /\ logs' = Append(logs, "error: " \o
                            (IF o.kind = "return" THEN o.value.message
                             ELSE o.message))
            /\ UNCHANGED receiptResults
  /\ isFetchingPast' = FALSE
  /\ UNCHANGED <<timedOut, acceptedFiles, fileIdx, isProcessing, upc>>
  /\ UNCHANGED <<dvars, pvars>>
  /\ UNCHANGED <<gvars, rvars>>

InitHome ==
  \E listing \in RootListings :
    \E d \in {DroppedAs("r.jpg", 0), DroppedAs("SCAN.PDF", 1)} :
       Len(listing) = 4 /\ StartFiling(<<d>>, listing)

NextHome == NextFiling \/ FetchPastData \/ FetchPastSettled

SpecHome == InitHome /\ [][NextHome]_vars

(***************************************************************************)
(* onDrop with several files: the for..of of lines 793-831 hands them to   *)
(* processReceipt one after the other.                                     *)
(***************************************************************************)
\* the batches that are dropped
Batches ==
  { <<DroppedAs("empty.jpg", 0), DroppedAs("r.jpg", 0)>>,
    <<DroppedAs("SCAN.PDF", 2), DroppedAs("photo", 0)>>,
    <<DroppedAs("r.jpg", 0), DroppedAs("SCAN.PDF", 1),
      DroppedAs("empty.jpg", 0)>> }

InitBatch ==
  \E batch \in Batches : \E listing \in RootListings :
     Len(listing) = 4 /\ StartFiling(batch, listing)

NextBatch == NextFiling

SpecBatch == InitBatch /\ [][NextBatch]_vars

(***************************************************************************)
(* Properties of the routing and of the use of the remote store            *)
(***************************************************************************)
\* the calendar dates behind the date strings a page may carry
Calendar ==
  { [str |-> "2024-03-05", year |-> 2024, month |-> 3],
    [str |-> "2025-12-31", year |-> 2025, month |-> 12],
    [str |-> "2026-01-01", year |-> 2026, month |-> 1],
    [str |-> "2026-01-15", year |-> 2026, month |-> 1],
    [str |-> "2026-11-02", year |-> 2026, month |-> 11],
    [str |-> "2127-10-09", year |-> 2127, month |-> 10] }
TwoDigits(n) == IF n < 10 THEN "0" \o ToString(n) ELSE ToString(n)
ExpectedParentName(str) ==
  LET c == CHOOSE c \in Calendar : c.str = str
  IN IF c.year <= 2025 THEN "25nen-made-no-keihi"
     ELSE TwoDigits(c.year % 100) \o TwoDigits(c.month)
IsUnderRoot(name, id) ==
  \E k \in 1..Len(rootFolders) :
    rootFolders[k].name = name /\ rootFolders[k].id = id

\* C8: a page whose (defaulted) date has a year <= 2025 is routed to the
\* legacy directory looked up directly under the root, whatever the month;
\* with a year >= 2026 it is routed to the directory under the root named
\* by the last two digits of the year and the two-digit month.
C8_Routing ==
  /\ \A i \in 1..Len(driveLog) :
       LET e == driveLog[i] IN
       /\ \E c \in Calendar : c.str = e.date
       /\ (e.op = "files.list" /\ e.name # Undefined) =>
             e.parent = "root" /\ e.name = ExpectedParentName(e.date)
       /\ (e.op = "files.list" /\ e.name = Undefined) =>
             IsUnderRoot(ExpectedParentName(e.date), e.parent)
  /\ (ppc \in {"listChildren", "upload"}) =>
       IsUnderRoot(ExpectedParentName(dateStr), parentFolderId)

\* one PDF: a page of December 2025 went to the legacy directory, a page
\* of January 2026 to 2601, and a page dated by the clock to 2601 as well
C8_Witness ==
  /\ \E i \in 1..Len(driveLog) :
       /\ driveLog[i].date = "2025-12-31"
       /\ driveLog[i].name = Undefined
       /\ driveLog[i].parent = "id:legacy"
  /\ \E i \in 1..Len(driveLog) :
       /\ driveLog[i].date = "2026-01-15"
       /\ driveLog[i].name = Undefined
       /\ driveLog[i].parent = "id:2601"
  /\ \E i \in 1..Len(driveLog) :
       /\ driveLog[i].date = "2026-01-01"
       /\ driveLog[i].name = "2601"

MissingMessage(name) ==
  IF name = "25nen-made-no-keihi"
  THEN "[25nen-made-no-keihi] folder not found"
  ELSE "month folder not found: " \o name

IsListing(e) == e.op = "files.list" /\ e.name = Undefined
IsCreate(e) == e.op = "files.create"

\* the names of a listing, in listing order, separated by ", "
RECURSIVE NamesText(_, _)
NamesText(folders, n) ==
  IF n = 0 THEN ""
  ELSE IF n = 1 THEN folders[1].name
  ELSE NamesText(folders, n - 1) \o ", " \o folders[n].name

NotFoundMessage(category, folders) ==
  "category folder not found: " \o category \o ". available: "
  \o NamesText(folders, Len(folders))

\* the failure msg is what the filing reports for the page
FailureRecorded(page, msg) ==
  IF IsPdf(file)
  THEN \E k \in 1..Len(errors) :
          errors[k] = "page" \o ToString(page) \o ": " \o msg
  ELSE /\ ppc = "done"
       /\ result = [success |-> FALSE, message |-> msg]

\* C13: resolveCategoryFolder fails for a page exactly when none of the
\* candidate names of the page's category is the name of a directory under
\* the parent; the failure message then lists every directory name that is
\* present under that parent, and no upload is issued for that page; when
\* a candidate is present the next drive call of the page is the upload
\* into a directory of the listing.
C13_FailsIffNoCandidate ==
  \A i \in 1..Len(driveLog) :
    LET e == driveLog[i]
    IN IsListing(e) =>
         LET folders == ChildrenOf(e.parent)
             none == PresentAt(Candidates(e.category), folders) = {}
             ids == {folders[k].id : k \in 1..Len(folders)}
         IN /\ none <=> FailureRecorded(e.page,
                                        NotFoundMessage(e.category, folders))
            /\ none => \A j \in 1..Len(driveLog) :
                         IsCreate(driveLog[j]) => driveLog[j].page # e.page
            /\ ~none =>
                 \/ /\ i = Len(driveLog)
                    /\ ppc = "upload"
                    /\ targetFolderId \in ids
                 \/ /\ i < Len(driveLog)
                    /\ IsCreate(driveLog[i + 1])
                    /\ driveLog[i + 1].page = e.page
                    /\ driveLog[i + 1].parent \in ids

\* page 1 of a PDF is a kaigihi receipt of 2025 and the legacy directory
\* holds kotsuhi and zappi only: the page fails with both names listed,
\* and a later page is stored
C13_Witness ==
  /\ IsPdf(file)
  /\ ppc = "done"
  /\ Len(errors) > 0
  /\ errors[1] = "page1: category folder not found: kaigihi. "
                 \o "available: kotsuhi, zappi"
  /\ \A j \in 1..Len(driveLog) :
        IsCreate(driveLog[j]) => driveLog[j].page # 1
  /\ \E j \in 1..Len(driveLog) :
        IsCreate(driveLog[j]) /\ driveLog[j].answer = "created"

(***************************************************************************)
(* Claims about the outcome of a filing                                    *)
(***************************************************************************)
HasPrefix(str, pre) == Len(str) >= Len(pre) /\ SubSeq(str, 1, Len(pre)) = pre

\* the record rec is the record of page i; the entry err is the failure of
\* page i
IsRecordOfPage(rec, i) == EndsWith(rec.fileName, "_p" \o ToString(i) \o ".png")
IsErrorOfPage(err, i) == HasPrefix(err, "page" \o ToString(i) \o ": ")

StoredCalls ==
  {j \in 1..Len(driveLog) :
     IsCreate(driveLog[j]) /\ driveLog[j].answer = "created"}

\* C14: whenever the filing of a multi-page source returns, the number of
\* succeeded records plus the number of recorded page failures equals the
\* number of pages of the source, and every page index 1..totalPages is in
\* exactly one of the two lists, also when the page splitter fails part-way.
C14_EveryPageAccounted ==
  (ppc = "done" /\ IsPdf(file) /\ file.size > 0) =>
    /\ Len(results) + Len(errors) = totalPages
    /\ \A i \in 1..totalPages :
          Cardinality({k \in 1..Len(results) : IsRecordOfPage(results[k], i)})
          + Cardinality({k \in 1..Len(errors) : IsErrorOfPage(errors[k], i)})
          = 1

\* C15: the result returned for a source file has success = false exactly
\* when no page was stored; whenever at least one page was stored the
\* result is a success and the record of every stored page is in it, even
\* when other pages failed.
C15_SuccessIffStored ==
  (ppc = "done") =>
    /\ (result.success = FALSE) <=> (StoredCalls = {})
    /\ (StoredCalls # {}) =>
          /\ result.success
          /\ IF IsPdf(file)
             THEN /\ "results" \in DOMAIN result
                  /\ \A j \in StoredCalls :
                        \E k \in 1..Len(result.results) :
                           result.results[k].fileName = driveLog[j].name
             ELSE /\ "data" \in DOMAIN result
                  /\ \A j \in StoredCalls :
                        result.data.fileName = driveLog[j].name

Attempted(j) == \E n \in 1..Len(geminiLog) : geminiLog[n].page = j

\* C16: in processPdf a failure of extraction, path resolution or upload
\* on page i is recorded as one failure entry for page i and never aborts
\* the batch: once the filing is over, every page j > i of the source has
\* been attempted, that is, callGemini has been called for it.
C16_FailureNeverAborts ==
  (IsPdf(file) /\ ppc = "done") =>
    \A k \in 1..Len(errors) :
      \E i \in 1..totalPages :
        /\ IsErrorOfPage(errors[k], i)
        /\ \A m \in 1..Len(errors) : IsErrorOfPage(errors[m], i) => m = k
        /\ \A j \in (i + 1)..totalPages : Attempted(j)

\* processPdf has returned, by one of its two return statements
ProcessPdfReturned ==
  /\ ppc = "done"
  /\ IsPdf(file)
  /\ file.size > 0
  /\ \/ "results" \in DOMAIN result
     \/ HasPrefix(result.message, "PDF failed: ")

\* the pages of the source that were not stored
FailedPages ==
  (1..totalPages) \ {driveLog[j].page : j \in StoredCalls}

\* the k-th element of the set of numbers S in increasing order
Nth(S, k) == CHOOSE x \in S : Cardinality({y \in S : y < x}) = k - 1

Contains(str, sub) ==
  \E i \in 1..(Len(str) - Len(sub) + 1) :
     SubSeq(str, i, i + Len(sub) - 1) = sub

\* the reason of a failure entry: the text after "page i: "
ReasonOf(err) ==
  LET i == CHOOSE p \in 1..totalPages : IsErrorOfPage(err, p)
  IN SubSeq(err, Len("page" \o ToString(i) \o ": ") + 1, Len(err))

\* C18: on a partial success (at least one page stored and at least one
\* page failed) what onDrop shows for the file contains the reason of
\* every failed page, in addition to the count of the pages that succeeded
\* out of the total.
C18_ReasonsShown ==
  (/\ ProcessPdfReturned
   /\ Len(results) > 0
   /\ Len(errors) > 0
   /\ upc = "finished") =>
    /\ Contains(logs[2], ToString(totalPages) \o " pages, "
                         \o ToString(Len(results)) \o " saved")
    /\ \A k \in 1..Len(errors) : Contains(logs[2], ReasonOf(errors[k]))

(***************************************************************************)
(* Claim about the deadline of the caller                                  *)
(***************************************************************************)
\* C19: once the deadline of the caller is reached while a filing is in
\* progress, no new page work is issued (no callGemini call and no drive
\* call), and the filing ends with every page that was not attempted
\* listed as failed with the reason DeadlineExceeded.
C19_DeadlineStopsWork ==
  /\ [][timedOut => (geminiLog' = geminiLog /\ driveLog' = driveLog)]_vars
  /\ []((timedOut /\ ppc = "done" /\ IsPdf(file)) =>
          \A i \in 1..totalPages :
             ~Attempted(i) =>
               \E k \in 1..Len(errors) :
                  errors[k] = "page" \o ToString(i) \o ": DeadlineExceeded")

(***************************************************************************)
(* Claim about the records of stored pages                                 *)
(***************************************************************************)
\* C20: a record is appended to the results only after the upload of its
\* page completed successfully: at every point the number of records
\* equals the number of successful uploads so far, every record carries
\* the name of a successful upload, and a page whose upload failed or was
\* never issued has no record (for an image: the result carries a record
\* exactly when its upload succeeded).
C20_RecordOnlyAfterUpload ==
  IF IsPdf(file)
  THEN /\ Len(results) = Cardinality(StoredCalls)
       /\ \A k \in 1..Len(results) :
             \E j \in StoredCalls :
                /\ results[k].fileName = driveLog[j].name
                /\ IsRecordOfPage(results[k], driveLog[j].page)
       /\ \A i \in 1..totalPages :
             (\A j \in StoredCalls : driveLog[j].page # i) =>
               \A k \in 1..Len(results) : ~IsRecordOfPage(results[k], i)
  ELSE /\ results = <<>>
       /\ ("data" \in DOMAIN result) <=> (StoredCalls # {})
       /\ ("data" \in DOMAIN result) =>
             \A j \in StoredCalls : result.data.fileName = driveLog[j].name

\* the upload of one page of a PDF failed, the upload of another succeeded
\* and only the latter has a record
C20_Witness ==
  /\ IsPdf(file)
  /\ ppc = "done"
  /\ Len(results) = 1
  /\ \E j \in 1..Len(driveLog) :
        IsCreate(driveLog[j]) /\ driveLog[j].answer = "failed"
  /\ Cardinality(StoredCalls) = 1

(***************************************************************************)
(* Claims about the calls a page gives rise to                             *)
(***************************************************************************)
IsLookup(e) == e.op = "files.list" /\ e.name # Undefined

\* the positions of driveLog that belong to page p and satisfy kind
ExtractionsOf(p) == {n \in 1..Len(geminiLog) : geminiLog[n].page = p}
LookupsOf(p) ==
  {j \in 1..Len(driveLog) : IsLookup(driveLog[j]) /\ driveLog[j].page = p}
ListingsOf(p) ==
  {j \in 1..Len(driveLog) : IsListing(driveLog[j]) /\ driveLog[j].page = p}
UploadsOf(p) ==
  {j \in 1..Len(driveLog) : IsCreate(driveLog[j]) /\ driveLog[j].page = p}

\* C21: the orchestrator retries nothing: for each page (page 0 is the one
\* page of an image) there is at most one invocation of callGemini, one
\* parent lookup, one listing of the parent's children and one upload, and
\* a lookup that found nothing or an upload that failed is the last drive
\* call of its page.
C21_NoRetry ==
  \A p \in 0..totalPages :
    /\ Cardinality(ExtractionsOf(p)) <= 1
    /\ Cardinality(LookupsOf(p)) <= 1
    /\ Cardinality(ListingsOf(p)) <= 1
    /\ Cardinality(UploadsOf(p)) <= 1
    /\ \A j \in 1..Len(driveLog) :
          (/\ driveLog[j].page = p
           /\ \/ IsLookup(driveLog[j]) /\ driveLog[j].answer = Null
              \/ IsCreate(driveLog[j]) /\ driveLog[j].answer = "failed") =>
            \A m \in (j + 1)..Len(driveLog) : driveLog[m].page # p

\* the upload of page 1 of a PDF failed, page 2 was then stored and the
\* filing is over: page 1 has one upload
C21_Witness ==
  /\ IsPdf(file)
  /\ ppc = "done"
  /\ \E j \in UploadsOf(1) : driveLog[j].answer = "failed"
  /\ \E j \in UploadsOf(2) : driveLog[j].answer = "created"
  /\ Cardinality(ExtractionsOf(1)) = 1

(***************************************************************************)
(* Properties of the batch loop of onDrop                                  *)
(***************************************************************************)
\* the remote calls so far, as (file, page) pairs in the order of each log
CallsOf(log) == [n \in 1..Len(log) |-> <<log[n].file, log[n].page>>]
Before(a, b) == a[1] < b[1] \/ (a[1] = b[1] /\ a[2] <= b[2])
InOrder(pairs) ==
  \A m, n \in 1..Len(pairs) : m < n => Before(pairs[m], pairs[n])
IsStartLine(l) == HasPrefix(l, "start: ")
InFlight == ppc \in {"nextPage", "extract", "findParent", "listChildren",
                     "upload"}

\* C22: the files of a dropped batch are processed one at a time in the
\* order of submission and the pages of a file one at a time in source
\* order: the remote calls are ordered by (file, page), a call is in flight
\* only for the file onDrop awaits, no call belongs to a later file or a
\* later page, and while page k is in flight the k - 1 pages before it are
\* all recorded as succeeded or failed.
C22_OneAtATime ==
  /\ InOrder(CallsOf(geminiLog))
  /\ InOrder(CallsOf(driveLog))
  /\ SelectSeq(logs, IsStartLine) =
       [i \in 1..fileIdx |-> "start: " \o acceptedFiles[i].name]
  /\ InFlight => (upc = "awaiting" /\ file.name = acceptedFiles[fileIdx].name)
  /\ \A n \in 1..Len(geminiLog) :
       Before(<<geminiLog[n].file, geminiLog[n].page>>, <<fileIdx, pageNum>>)
  /\ \A n \in 1..Len(driveLog) :
       Before(<<driveLog[n].file, driveLog[n].page>>, <<fileIdx, pageNum>>)
  /\ (IsPdf(file) /\ ppc \in {"extract", "findParent", "listChildren",
                               "upload"}) =>
       Len(results) + Len(errors) = pageNum - 1

\* a PDF of two pages and then a photo were stored, in that order
C22_Witness ==
  /\ upc = "finished"
  /\ Len(acceptedFiles) = 2
  /\ \E a, b, c \in 1..Len(driveLog) :
       /\ a < b /\ b < c
       /\ IsCreate(driveLog[a]) /\ driveLog[a].file = 1 /\ driveLog[a].page = 1
       /\ IsCreate(driveLog[b]) /\ driveLog[b].file = 1 /\ driveLog[b].page = 2
       /\ IsCreate(driveLog[c]) /\ driveLog[c].file = 2 /\ driveLog[c].page = 0

IsResultLine(l) == HasPrefix(l, "done: ") \/ HasPrefix(l, "error: ")

\* C23: no failure leaves processReceipt as an exception: whenever the call
\* has ended, its result is an object with a success flag and a message;
\* after a failed file onDrop goes on with the next file, and when onDrop
\* is over every file of the batch was started and got its line, and
\* isProcessing is false again.
C23_FailuresContained ==
  /\ [](ppc = "done" =>
          /\ {"success", "message"} \subseteq DOMAIN result
          /\ result.success \in BOOLEAN)
  /\ [](isProcessing <=> upc \in {"compress", "awaiting"})
  /\ [][(upc = "awaiting" /\ ppc = "done" /\ ~result.success
          /\ fileIdx < Len(acceptedFiles) /\ upc' # upc) =>
            (fileIdx' = fileIdx + 1 /\ upc' = "compress" /\ isProcessing')]_vars
  /\ [](upc = "finished" =>
          /\ Len(SelectSeq(logs, IsStartLine)) = Len(acceptedFiles)
          /\ Len(SelectSeq(logs, IsResultLine)) = Len(acceptedFiles)
          /\ ~isProcessing)

\* three files failed, each in its own way (the upload, the page iterator,
\* an empty file), and the batch is over
C23_Witness ==
  /\ upc = "finished"
  /\ ~isProcessing
  /\ Len(acceptedFiles) = 3
  /\ \E j \in 1..Len(driveLog) :
       IsCreate(driveLog[j]) /\ driveLog[j].file = 1
       /\ driveLog[j].answer = "failed"
  /\ \E n \in 1..Len(logs) : logs[n] = "error: SCAN.PDF - " \o RenderError.message
  /\ \E n \in 1..Len(logs) : logs[n] = "error: empty.jpg - file is empty"
  /\ Len(SelectSeq(logs, LAMBDA l : HasPrefix(l, "error: "))) = 3

(***************************************************************************)
(* Properties of the stored name and of the returned record                *)
(***************************************************************************)
\* the vendor as the name shows it
VendorShown(d) ==
  IF d.vendor \in {Undefined, Null, ""} THEN "fumei" ELSE d.vendor
\* the end of the name: of a single image, and of the page of a PDF with
\* the given 1-based source index
NameEnd(f, index) ==
  IF IsPdf(f) THEN "_p" \o ToString(index) \o ".png" ELSE ".jpg"

\* C24: the stored name is {date}_{category}_{vendor}.jpg for a single
\* image and {date}_{category}_{vendor}_p{n}.png for a page of a PDF, n
\* being the 1-based index of the page in the source: a page that follows
\* a failed page keeps its source index.
C24_StoredName ==
  /\ ppc = "upload" =>
       newFileName = dateStr \o "_" \o categoryFolder \o "_" \o VendorShown(data)
                     \o NameEnd(file, Len(results) + Len(errors) + 1)
  /\ \A j \in 1..Len(driveLog) :
       LET e == driveLog[j] IN
       (IsCreate(e) /\ e.file = fileIdx) =>
          /\ HasPrefix(e.name, e.date \o "_" \o e.category \o "_")
          /\ EndsWith(e.name, NameEnd(file, e.page))
          /\ IsPdf(file) =>
               e.page = 1 + Cardinality({n \in 1..Len(geminiLog) :
                                          /\ geminiLog[n].file = e.file
                                          /\ geminiLog[n].page < e.page})

\* page 1 of a PDF failed and page 2 was stored under a name ending in
\* _p2.png
C24_Witness ==
  /\ IsPdf(file) /\ ppc = "done"
  /\ Len(errors) >= 1 /\ IsErrorOfPage(errors[1], 1)
  /\ \E j \in 1..Len(driveLog) :
       /\ IsCreate(driveLog[j]) /\ driveLog[j].answer = "created"
       /\ EndsWith(driveLog[j].name, "_fumei_p2.png")

\* the records returned so far: by the pages of a PDF, and by the call
ReturnedRecords ==
  {results[i] : i \in 1..Len(results)}
  \cup (IF ppc = "done" /\ "data" \in DOMAIN result THEN {result.data} ELSE {})
  \cup (IF ppc = "done" /\ "results" \in DOMAIN result
        THEN {result.results[i] : i \in 1..Len(result.results)} ELSE {})
\* {date}_{category}_{vendor} and the end of the name, applied to a record
ConventionHolds(rec) ==
  \E end \in {".jpg"} \cup {"_p" \o ToString(k) \o ".png" : k \in 1..MaxPages} :
     rec.fileName = rec.date \o "_" \o rec.category \o "_" \o rec.vendor \o end

\* C25: the fileName of every returned record is the name convention
\* applied to the date, category and vendor of that same record (with the
\* page number and the extension), whatever the parsed response was,
\* fields that are absent, null or empty included.
C25_NameFromRecord ==
  \A rec \in ReturnedRecords : ConventionHolds(rec)

Missing(v) == v \in {Undefined, Null}
\* the days on which the pages are processed
ProcessingDays == {"2025-12-31", "2026-01-01"}
PageResolving == ppc \in {"findParent", "listChildren", "upload"}
\* the record that the step adds, if it adds one
RecordAdded ==
  \/ Len(results') = Len(results) + 1
  \/ ppc = "upload" /\ ppc' = "done" /\ result'.success
NewRecord == IF IsPdf(file) THEN results'[Len(results')] ELSE result'.data

\* C26: a parsed response without amount, vendor or category does not make
\* the page fail: the page goes on to its routing, its record has amount 0,
\* the placeholder vendor and the catch-all category, a missing date
\* becomes the day of processing, and the lookup, the listing, the upload
\* and the name use the defaulted values.
C26_Defaults ==
  /\ [][(ppc = "extract" /\ data' # NoData) => ppc' = "findParent"]_vars
  /\ [](PageResolving =>
          /\ IF Missing(data.date) THEN dateStr \in ProcessingDays
             ELSE dateStr = data.date
          /\ IF Missing(data.category) THEN categoryFolder = "sonota"
             ELSE data.category \in {categoryFolder, ""}
          /\ Missing(data.vendor) =>
               HasPrefix(newFileName,
                         dateStr \o "_" \o categoryFolder \o "_fumei")
          /\ \A j \in 1..Len(driveLog) :
               (driveLog[j].file = fileIdx /\ driveLog[j].page = pageNum) =>
                 /\ driveLog[j].date = dateStr
                 /\ driveLog[j].category = categoryFolder
                 /\ IsLookup(driveLog[j]) =>
                      driveLog[j].name = ExpectedParentName(dateStr))
  /\ [][RecordAdded =>
          /\ NewRecord.date = dateStr
          /\ NewRecord.category = categoryFolder
          /\ NewRecord.fileName = newFileName
          /\ NewRecord.amount = (IF Missing(data.amount) THEN "0"
                                 ELSE data.amount)
          /\ NewRecord.vendor = (IF Missing(data.vendor) THEN "fumei"
                                 ELSE data.vendor)]_vars

\* the response held a date only; the page was stored and its record has
\* amount 0, the placeholder vendor and the catch-all category
C26_Witness ==
  /\ ppc = "done"
  /\ \E rec \in ReturnedRecords :
       /\ rec.date = "2026-11-02"
       /\ rec.amount = "0" /\ rec.vendor = "fumei" /\ rec.category = "sonota"
  /\ \E j \in 1..Len(driveLog) :
       /\ IsCreate(driveLog[j]) /\ driveLog[j].answer = "created"
       /\ HasPrefix(driveLog[j].name, "2026-11-02_sonota_fumei")

(***************************************************************************)
(* Properties of the resources callGemini uses                             *)
(***************************************************************************)
\* C27: an invocation of callGemini fetches the access token exactly once,
\* before its first request, and every request of the invocation, whatever
\* its location and attempt, carries that token.
C27_OneTokenPerCall ==
  /\ [](tokenCalls = calls)
  /\ [](\A i \in 1..Len(requests) : requests[i].token = accessToken)
  /\ [][tokenCalls' # tokenCalls =>
          (tokenCalls' = tokenCalls + 1 /\ requests' = <<>>)]_vars
  /\ [][requests' # requests /\ requests' # <<>> =>
          (tokenCalls >= 1 /\ tokenCalls' = tokenCalls
           /\ accessToken' = accessToken)]_vars

\* the second invocation sent requests in both attempts and to two
\* locations, all with the token it fetched
C27_Witness ==
  /\ calls = 2 /\ tokenCalls = 2
  /\ Len(requests) >= 4
  /\ \E i, j \in 1..Len(requests) :
       /\ requests[i].attempt = 0 /\ requests[j].attempt = 1
       /\ requests[i].location # requests[j].location
  /\ \A i \in 1..Len(requests) : requests[i].token = "tok2"

\* what is left for the invocation to do at most: the attempts not yet
\* started and the requests not yet sent
Remaining ==
  IF gpc \in {"idle", "done"} THEN 0
  ELSE (maxAttempts - attempt) + (maxAttempts * Len(locations) - Len(requests))

\* C29: callGemini always terminates: it sends at most maxAttempts times
\* the number of locations requests, 6 at most, waits at most
\* maxAttempts - 1 times, every step of it brings its end nearer, and it
\* ends by returning a parsed value or by throwing; the throw after the
\* attempt loop is never reached.
C29_Terminates ==
  /\ [](Len(requests) <= maxAttempts * Len(locations))
  /\ [](Len(requests) <= 6 /\ Len(waits) <= maxAttempts - 1)
  /\ [](Remaining >= 0)
  /\ [][(gpc \in {"fetch", "backoff"}) => (Remaining' < Remaining)]_vars
  /\ [](gpc = "done" => outcome.kind \in {"return", "throw"})
  /\ [](outcome # Throw("Error", "retry limit reached"))

\* six requests and one wait were made, and the call ended with the error
\* of the rate limit
C29_Witness ==
  /\ gpc = "done"
  /\ Len(requests) = 6
  /\ Len(waits) = 1
  /\ outcome.kind = "throw"

(***************************************************************************)
(* Properties of the directories the pipeline stores into                  *)
(***************************************************************************)
SamePage(a, b) == a.file = b.file /\ a.page = b.page

CallMade == Len(driveLog') = Len(driveLog) + 1
NewCall == driveLog'[Len(driveLog')]
FirstNamed(seq, name) ==
  IF HasName(seq, name)
  THEN seq[CHOOSE k \in 1..Len(seq) :
             /\ seq[k].name = name
             /\ \A j \in 1..(k - 1) : seq[j].name # name].id
  ELSE Null

\* C30: listings are not kept from one resolution to the next: every page
\* that is routed makes its own lookup of the parent and its own listing of
\* the parent's children, and each of them answers with the store as it is
\* at that moment, so that a folder created, renamed or removed by someone
\* else between two pages shows in the routing of the later page.
C30_NoStaleListing ==
  /\ [][(CallMade /\ IsLookup(NewCall)) =>
          NewCall.answer = FirstNamed(rootFolders, NewCall.name)]_vars
  /\ [][(CallMade /\ IsListing(NewCall)) =>
          NewCall.files = (IF NewCall.parent \in DOMAIN childFolders
                           THEN childFolders[NewCall.parent] ELSE <<>>)]_vars
  /\ [](\A c \in 1..Len(driveLog) :
          IsCreate(driveLog[c]) =>
            /\ \E k \in 1..(c - 1) :
                 IsLookup(driveLog[k]) /\ SamePage(driveLog[k], driveLog[c])
            /\ \E l \in 1..(c - 1) :
                 IsListing(driveLog[l]) /\ SamePage(driveLog[l], driveLog[c]))

\* two pages with the same date and category: page 1 was stored in kotsuhi
\* of 2601, then that folder was renamed, and page 2 was stored in
\* 3-ryoshusho of 2601
C30_Witness ==
  /\ storeChanges = 1
  /\ \E a, b \in 1..Len(driveLog) :
       /\ a < b
       /\ IsCreate(driveLog[a]) /\ driveLog[a].page = 1
       /\ IsCreate(driveLog[b]) /\ driveLog[b].page = 2
       /\ driveLog[a].date = driveLog[b].date
       /\ driveLog[a].category = driveLog[b].category
       /\ driveLog[a].parent = "id:2601/kotsuhi"
       /\ driveLog[b].parent = "id:2601/3-ryoshusho"

(***************************************************************************)
(* Properties of the two operations of the page                            *)
(***************************************************************************)
Shown == {receiptResults[i] : i \in 1..Len(receiptResults)}
\* the batch that was dropped is the operation started last, and it is over
DropWasLast == upc = "finished" /\ Len(logs) >= 1 /\ IsStartLine(logs[1])

\* the records that the call for the dropped file returned
DropRecords ==
  IF "data" \in DOMAIN result THEN {result.data}
  ELSE IF "results" \in DOMAIN result
  THEN {result.results[i] : i \in 1..Len(result.results)}
  ELSE {}

\* C31: a batch of dropped files and a fetch of the past data are never in
\* progress at the same time, so receiptResults never holds records of
\* both, and the records of a batch that is over are all there.
C31_OneOperationAtATime ==
  /\ ~(isProcessing /\ isFetchingPast)
  /\ ~(PastRecord \in Shown /\ Shown # {PastRecord})
  /\ (DropWasLast /\ ~isFetchingPast) => DropRecords \subseteq Shown

(***************************************************************************)
(* Properties of resolveCategoryFolder on a listing with a name twice      *)
(***************************************************************************)
\* the candidate name that resolveCategoryFolder settles on
ChosenName ==
  LET cands == Candidates(rcCategory)
  IN cands[Least(PresentAt(cands, rcFolders))]
Occurrences(seq, name) == {k \in 1..Len(seq) : seq[k].name = name}

\* C32: also when the listing of the children holds more than one folder
\* with the chosen candidate name, resolveCategoryFolder returns the id of
\* the first of them in the order of the listing, as the lookup by name
\* does.
C32_FirstOfSameName ==
  rcResult.kind = "return" =>
    /\ rcResult.value = FirstNamed(rcFolders, ChosenName)
    /\ rcResult.value = FindFolder(ChosenName, rcFolders)
====
